---- MODULE Spec2Model ----
(***************************************************************************)
(* The staged research pipeline of llm-research-agent:                     *)
(*   src/src/agent/research_agent.py  ResearchAgent (cache, steps,         *)
(*                                    research)                            *)
(*   src/src/agent/tools.py           the six stage functions              *)
(* A Python str is a sequence of one-character strings, a Python list of   *)
(* str a sequence of such sequences.  The completion client and the search *)
(* service are the environment: what they answer is a nondeterministic     *)
(* choice among the outcomes they can produce (see the environment below). *)
(***************************************************************************)
EXTENDS Integers, Sequences, FiniteSets, TLC

(***************************************************************************)
(* Bounds of the model.                                                    *)
(***************************************************************************)
\* research() calls made over the life of the process
MaxCalls == 2
\* length of a result list given directly to the reference formatter
MaxRefInput == 3
\* subtopics given to one query_expansion
MaxSubtopics == 11
\* queries given to one search
MaxQueries == 6
\* the largest max_results given to one search
MaxResults == 11
\* characters of a title given to extract_title_and_link
MaxTitleLen == 3
\* characters of a url after its scheme
MaxUrlTail == 2

(***************************************************************************)
(* Python str and list primitives.                                         *)
(***************************************************************************)
\* the value None (no str is a one-element sequence of a four-letter string)
None == <<"None">>

Min(a, b) == IF a < b THEN a ELSE b

\* characters str.strip(), \S and str.split() treat as white space
Whitespace == {" ", "\t", "\n", "\r", "\f"}

UpperCase ==
  <<"A","B","C","D","E","F","G","H","I","J","K","L","M","N","O","P","Q","R","S","T","U","V","W",
    "X","Y","Z">>

LowerCase ==
  <<"a","b","c","d","e","f","g","h","i","j","k","l","m","n","o","p","q","r","s","t","u","v","w",
    "x","y","z">>

\* str.lower() on one character
LowerChar(c) ==
  IF \E i \in 1..26 : UpperCase[i] = c
  THEN LowerCase[CHOOSE i \in 1..26 : UpperCase[i] = c]
  ELSE c

\* str.lower()
Lower(s) == [i \in 1..Len(s) |-> LowerChar(s[i])]

\* s[i:i+len(p)] == p, for the 1-based position i
IsPrefixAt(p, s, i) ==
  /\ i >= 1
  /\ i + Len(p) - 1 <= Len(s)
  /\ \A j \in 1..Len(p) : s[i + j - 1] = p[j]

\* p in s
Contains(p, s) == \E i \in 1..(Len(s) + 1) : IsPrefixAt(p, s, i)

\* list[:n]
Take(l, n) == SubSeq(l, 1, Min(n, Len(l)))

\* sep.join(l)
RECURSIVE Join(_, _)
Join(sep, l) ==
  IF Len(l) = 0 THEN <<>>
  ELSE IF Len(l) = 1 THEN l[1]
  ELSE l[1] \o sep \o Join(sep, Tail(l))

\* str.strip()
Strip(s) ==
  LET keep == {i \in 1..Len(s) : s[i] \notin Whitespace}
  IN  IF keep = {} THEN <<>>
      ELSE SubSeq(s, CHOOSE i \in keep : \A j \in keep : i <= j,
                     CHOOSE i \in keep : \A j \in keep : i >= j)

\* [x for x in l if pred], for the predicate "x is not empty"
RECURSIVE NonEmptyOnly(_)
NonEmptyOnly(l) ==
  IF Len(l) = 0 THEN <<>>
  ELSE IF Len(l[1]) > 0 THEN <<l[1]>> \o NonEmptyOnly(Tail(l))
  ELSE NonEmptyOnly(Tail(l))

\* [x.strip() for x in l if x.strip()]
StripKeep(l) == NonEmptyOnly([i \in 1..Len(l) |-> Strip(l[i])])

\* the position of the first "\n" of s at or after i, Len(s) + 1 when none
LineEnd(s, i) ==
  LET nl == {j \in i..Len(s) : s[j] = "\n"}
  IN  IF nl = {} THEN Len(s) + 1 ELSE CHOOSE j \in nl : \A k \in nl : j <= k

\* s.split('\n'), scanning from position i
RECURSIVE SplitLinesFrom(_, _)
SplitLinesFrom(s, i) ==
  LET e == LineEnd(s, i)
  IN  IF e > Len(s) THEN <<SubSeq(s, i, Len(s))>>
      ELSE <<SubSeq(s, i, e - 1)>> \o SplitLinesFrom(s, e + 1)

SplitLines(s) == SplitLinesFrom(s, 1)

\* str(n) for a natural number n
Digits == <<"0","1","2","3","4","5","6","7","8","9">>

RECURSIVE IntToStr(_)
IntToStr(n) ==
  IF n < 10 THEN <<Digits[n + 1]>>
  ELSE IntToStr(n \div 10) \o <<Digits[(n % 10) + 1]>>

(***************************************************************************)
(* The regular expressions of the program, by what re does with them.      *)
(***************************************************************************)
\* re.findall(r'\*\*(.*?)\*\*', s): the shortest text without a newline
\* between two "**", left to right, matches not overlapping
RECURSIVE FindBoldFrom(_, _)
FindBoldFrom(s, i) ==
  IF i > Len(s) THEN <<>>
  ELSE
    LET Stars == <<"*", "*">>
        closers == {j \in (i + 2)..Len(s) :
                      /\ IsPrefixAt(Stars, s, j)
                      /\ \A k \in (i + 2)..(j - 1) : s[k] # "\n"}
    IN  IF IsPrefixAt(Stars, s, i) /\ closers # {}
        THEN LET j == CHOOSE c \in closers : \A d \in closers : c <= d
             IN  <<SubSeq(s, i + 2, j - 1)>> \o FindBoldFrom(s, j + 2)
        ELSE FindBoldFrom(s, i + 1)

FindBold(s) == FindBoldFrom(s, 1)

\* re.findall(r'- (.*?)(?:\n|$)', s): the rest of the line after each "- "
RECURSIVE FindDashFrom(_, _)
FindDashFrom(s, i) ==
  IF i > Len(s) THEN <<>>
  ELSE IF IsPrefixAt(<<"-", " ">>, s, i)
       THEN LET e == LineEnd(s, i + 2)
            IN  <<SubSeq(s, i + 2, e - 1)>> \o FindDashFrom(s, e + 1)
       ELSE FindDashFrom(s, i + 1)

FindDash(s) == FindDashFrom(s, 1)

\* length of "http://" or "https://" at position i of s, 0 when neither is there
\* the bug of matching r'https://' only
SchemeLenAtHttpsOnly(s, i) ==
  IF IsPrefixAt(<<"h","t","t","p","s",":","/","/">>, s, i) THEN 8
  ELSE 0

SchemeLenAt(s, i) ==
  IF IsPrefixAt(<<"h","t","t","p","s",":","/","/">>, s, i) THEN 8
  ELSE IF IsPrefixAt(<<"h","t","t","p",":","/","/">>, s, i) THEN 7
  ELSE 0

\* r'(.*?) - (https?://\S+)' matches s from its start with a title of length t
RefMatchAt(s, t) ==
  /\ IsPrefixAt(<<" ", "-", " ">>, s, t + 1)
  /\ \A k \in 1..t : s[k] # "\n"
  /\ LET n == SchemeLenAt(s, t + 4)
     IN  /\ n > 0
         /\ t + 4 + n <= Len(s)
         /\ s[t + 4 + n] \notin Whitespace

\* re.match(r'(.*?) - (https?://\S+)', s): whether it matched and, if so, its
\* groups: the shortest title that lets the rest match, the longest link
ReMatchRef(s) ==
  LET ts == {t \in 0..Len(s) : RefMatchAt(s, t)}
  IN  IF ts = {} THEN [matched |-> FALSE, title |-> <<>>, link |-> <<>>]
      ELSE LET t == CHOOSE x \in ts : \A y \in ts : x <= y
               stops == {e \in (t + 4)..Len(s) : s[e] \in Whitespace}
               last == IF stops = {} THEN Len(s)
                       ELSE (CHOOSE e \in stops : \A f \in stops : e <= f) - 1
           IN  [matched |-> TRUE, title |-> SubSeq(s, 1, t), link |-> SubSeq(s, t + 4, last)]

(***************************************************************************)
(* The string constants of the program.                                    *)
(***************************************************************************)
\* self.steps
steps ==
  << <<"B","r","e","a","k"," ","d","o","w","n"," ","t","h","e"," ","r","e","s","e","a","r","c","h",
       " ","t","o","p","i","c">>,
     <<"G","e","n","e","r","a","t","e"," ","r","e","l","a","t","e","d"," ","k","e","y","w","o","r",
       "d","s",","," ","s","y","n","o","n","y","m","s",","," ","a","n","d"," ","p","h","r","a","s",
       "e","s"," ","f","o","r"," ","s","u","b","t","o","p","i","c","s">>,
     <<"P","e","r","f","o","r","m"," ","a"," ","s","e","a","r","c","h"," ","q","u","e","r","y">>,
     <<"P","l","e","a","s","e"," ","s","u","m","m","a","r","i","z","e"," ","t","h","e"," ","f","o",
       "l","l","o","w","i","n","g"," ","c","o","n","t","e","n","t">>,
     <<"P","r","o","v","i","d","e"," ","a"," ","c","r","i","t","i","q","u","e"," ","o","f"," ","t",
       "h","e"," ","g","e","n","e","r","a","t","e","d"," ","s","u","m","m","a","r","y">>,
     <<"I","m","p","r","o","v","e"," ","t","h","e"," ","g","e","n","e","r","a","t","e","d"," ","s",
       "u","m","m","a","r","y"," ","b","a","s","e","d"," ","o","n"," ","c","r","i","t","i","q","u",
       "e">> >>

\* the substrings the if/elif chain of research looks for in a step
PatBreakDown ==
  <<"B","r","e","a","k"," ","d","o","w","n"," ","t","h","e"," ","r","e","s","e","a","r","c","h",
    " ","t","o","p","i","c">>

PatGenerate ==
  <<"G","e","n","e","r","a","t","e"," ","r","e","l","a","t","e","d"," ","k","e","y","w","o","r",
    "d","s">>

PatPerform ==
  <<"P","e","r","f","o","r","m"," ","a"," ","s","e","a","r","c","h"," ","q","u","e","r","y">>

PatSummarize ==
  <<"s","u","m","m","a","r","i","z","e">>

PatCritique ==
  <<"c","r","i","t","i","q","u","e">>

PatImprove ==
  <<"i","m","p","r","o","v","e">>

\* the list topic_breakdown returns when nothing was extracted
TOPIC_BREAKDOWN_FALLBACK ==
  << <<"I","n","t","e","l","l","i","g","e","n","t"," ","T","u","t","o","r","i","n","g"," ","S","y",
       "s","t","e","m","s"," ","(","I","T","S",")">>,
     <<"P","e","r","s","o","n","a","l","i","z","e","d"," ","L","e","a","r","n","i","n","g">>,
     <<"A","u","t","o","m","a","t","e","d"," ","G","r","a","d","i","n","g">>,
     <<"N","a","t","u","r","a","l"," ","L","a","n","g","u","a","g","e"," ","P","r","o","c","e","s",
       "s","i","n","g"," ","(","N","L","P",")"," ","i","n"," ","E","d","u","c","a","t","i","o","n">>,
     <<"V","i","r","t","u","a","l"," ","L","e","a","r","n","i","n","g"," ","E","n","v","i","r","o",
       "n","m","e","n","t","s"," ","(","V","L","E","s",")">> >>

\* the list query_expansion returns when nothing was extracted
QUERY_EXPANSION_FALLBACK ==
  << <<"m","a","c","h","i","n","e"," ","l","e","a","r","n","i","n","g"," ","e","n","g","i","n","e",
       "e","r"," ","s","k","i","l","l","s">>,
     <<"m","a","c","h","i","n","e"," ","l","e","a","r","n","i","n","g"," ","c","a","r","e","e","r",
       " ","p","a","t","h">>,
     <<"M","L"," ","e","n","g","i","n","e","e","r"," ","v","s"," ","d","a","t","a"," ","s","c","i",
       "e","n","t","i","s","t">>,
     <<"m","a","c","h","i","n","e"," ","l","e","a","r","n","i","n","g"," ","p","r","o","g","r","a",
       "m","m","i","n","g"," ","l","a","n","g","u","a","g","e","s">>,
     <<"m","a","c","h","i","n","e"," ","l","e","a","r","n","i","n","g"," ","p","r","o","j","e","c",
       "t","s"," ","p","o","r","t","f","o","l","i","o">>,
     <<"m","a","c","h","i","n","e"," ","l","e","a","r","n","i","n","g"," ","e","n","g","i","n","e",
       "e","r"," ","s","a","l","a","r","y">>,
     <<"m","a","c","h","i","n","e"," ","l","e","a","r","n","i","n","g"," ","c","e","r","t","i","f",
       "i","c","a","t","i","o","n","s">>,
     <<"m","a","c","h","i","n","e"," ","l","e","a","r","n","i","n","g"," ","j","o","b"," ","r","e",
       "q","u","i","r","e","m","e","n","t","s">>,
     <<"m","a","c","h","i","n","e"," ","l","e","a","r","n","i","n","g"," ","e","n","g","i","n","e",
       "e","r"," ","i","n","t","e","r","v","i","e","w"," ","q","u","e","s","t","i","o","n","s">>,
     <<"h","o","w"," ","t","o"," ","b","e","c","o","m","e"," ","M","L"," ","e","n","g","i","n","e",
       "e","r"," ","w","i","t","h","o","u","t"," ","d","e","g","r","e","e">> >>

\* the phrase search looks for in the lower-cased queries
RELEVANCE_PHRASE ==
  <<"m","a","c","h","i","n","e"," ","l","e","a","r","n","i","n","g"," ","e","n","g","i","n","e",
    "e","r">>

\* the query search puts in front when the phrase is missing
RELEVANCE_QUERY ==
  <<"h","o","w"," ","t","o"," ","b","e","c","o","m","e"," ","a"," ","m","a","c","h","i","n","e",
    " ","l","e","a","r","n","i","n","g"," ","e","n","g","i","n","e","e","r">>

\* the results search returns when it gathered none
SEARCH_FALLBACK ==
  << <<"H","o","w"," ","t","o"," ","B","e","c","o","m","e"," ","a"," ","M","a","c","h","i","n","e",
       " ","L","e","a","r","n","i","n","g"," ","E","n","g","i","n","e","e","r"," ","-"," ","C","o",
       "u","r","s","e","r","a"," ","-"," ","h","t","t","p","s",":","/","/","w","w","w",".","c","o",
       "u","r","s","e","r","a",".","o","r","g","/","a","r","t","i","c","l","e","s","/","m","a","c",
       "h","i","n","e","-","l","e","a","r","n","i","n","g","-","e","n","g","i","n","e","e","r">>,
     <<"H","o","w"," ","t","o"," ","B","e","c","o","m","e"," ","a"," ","M","a","c","h","i","n","e",
       " ","L","e","a","r","n","i","n","g"," ","E","n","g","i","n","e","e","r"," ","i","n"," ","2",
       "0","2","3"," ","-"," ","L","e","a","r","n","D","a","t","a","S","c","i"," ","-"," ","h","t",
       "t","p","s",":","/","/","w","w","w",".","l","e","a","r","n","d","a","t","a","s","c","i",".",
       "c","o","m","/","b","e","c","o","m","e","-","m","a","c","h","i","n","e","-","l","e","a","r",
       "n","i","n","g","-","e","n","g","i","n","e","e","r","/">>,
     <<"M","a","c","h","i","n","e"," ","L","e","a","r","n","i","n","g"," ","E","n","g","i","n","e",
       "e","r",":"," ","C","a","r","e","e","r"," ","P","a","t","h",","," ","S","a","l","a","r","y",
       " ","&"," ","J","o","b"," ","D","e","s","c","r","i","p","t","i","o","n"," ","-"," ","S","p",
       "r","i","n","g","b","o","a","r","d"," ","-"," ","h","t","t","p","s",":","/","/","w","w","w",
       ".","s","p","r","i","n","g","b","o","a","r","d",".","c","o","m","/","b","l","o","g","/","d",
       "a","t","a","-","s","c","i","e","n","c","e","/","m","a","c","h","i","n","e","-","l","e","a",
       "r","n","i","n","g","-","e","n","g","i","n","e","e","r","-","c","a","r","e","e","r","-","g",
       "u","i","d","e","/">>,
     <<"H","o","w"," ","t","o"," ","B","e","c","o","m","e"," ","a"," ","M","a","c","h","i","n","e",
       " ","L","e","a","r","n","i","n","g"," ","E","n","g","i","n","e","e","r"," ","-"," ","B","e",
       "r","k","e","l","e","y"," ","B","o","o","t"," ","C","a","m","p","s"," ","-"," ","h","t","t",
       "p","s",":","/","/","b","o","o","t","c","a","m","p",".","b","e","r","k","e","l","e","y",".",
       "e","d","u","/","b","l","o","g","/","h","o","w","-","t","o","-","b","e","c","o","m","e","-",
       "a","-","m","a","c","h","i","n","e","-","l","e","a","r","n","i","n","g","-","e","n","g","i",
       "n","e","e","r","/">>,
     <<"M","a","c","h","i","n","e"," ","L","e","a","r","n","i","n","g"," ","E","n","g","i","n","e",
       "e","r"," ","C","a","r","e","e","r"," ","P","a","t","h",":"," ","S","k","i","l","l","s",",",
       " ","R","o","l","e","s"," ","&"," ","R","e","s","p","o","n","s","i","b","i","l","i","t","i",
       "e","s"," ","-"," ","S","i","m","p","l","i","l","e","a","r","n"," ","-"," ","h","t","t","p",
       "s",":","/","/","w","w","w",".","s","i","m","p","l","i","l","e","a","r","n",".","c","o","m",
       "/","m","a","c","h","i","n","e","-","l","e","a","r","n","i","n","g","-","e","n","g","i","n",
       "e","e","r","-","c","a","r","e","e","r","-","p","a","t","h","-","a","r","t","i","c","l","e">> >>

\* what summarize_content returns for empty input
NO_RESULTS_SENTINEL ==
  <<"N","o"," ","s","e","a","r","c","h"," ","r","e","s","u","l","t","s"," ","t","o"," ","s","u",
    "m","m","a","r","i","z","e",".">>

\* the canned texts of summarize_content, critique_summary and
\* improve_summary: their first lines stand for the whole texts, which the
\* program only returns, stores and concatenates
SUMMARY_FALLBACK ==
  <<"\n","B","e","c","o","m","i","n","g"," ","a"," ","M","a","c","h","i","n","e"," ","L","e",
    "a","r","n","i","n","g"," ","E","n","g","i","n","e","e","r"," ","r","e","q","u","i","r","e",
    "s"," ","a"," ","c","o","m","b","i","n","a","t","i","o","n"," ","o","f"," ","t","e","c","h",
    "n","i","c","a","l"," ","s","k","i","l","l","s",","," ","e","d","u","c","a","t","i","o","n",
    ","," ","a","n","d"," ","p","r","a","c","t","i","c","a","l"," ","e","x","p","e","r","i","e",
    "n","c","e",".">>

CRITIQUE_FALLBACK ==
  <<"\n","*","*","C","r","i","t","i","q","u","e"," ","o","f"," ","t","h","e"," ","S","u","m",
    "m","a","r","y","*","*","\n">>

IMPROVE_FALLBACK ==
  <<"\n","#"," ","C","o","m","p","r","e","h","e","n","s","i","v","e"," ","G","u","i","d","e",
    " ","t","o"," ","B","e","c","o","m","i","n","g"," ","a"," ","M","a","c","h","i","n","e"," ",
    "L","e","a","r","n","i","n","g"," ","E","n","g","i","n","e","e","r","\n">>

\* the text between the improved summary and the reference lines
REFERENCES_HEADER ==
  <<"\n","\n","R","e","f","e","r","e","n","c","e","s",":","\n">>

\* the literal the returned string is looked up for
REFERENCES_LITERAL ==
  <<"R","e","f","e","r","e","n","c","e","s",":">>

(***************************************************************************)
(* Inputs: topics, completion texts, search items and result lines.        *)
(***************************************************************************)
\* "Test Topic" and "AI"
TestTopic ==
  <<"T","e","s","t"," ","T","o","p","i","c">>

OtherTopic ==
  <<"A","I">>

\* a completion text with a bold phrase and three dash-prefixed lines
TEXT_MARKED ==
  <<"*","*","s","*","*","\n","-"," ","k","\n","-"," ","l","\n","-"," ","m">>

\* a completion text with neither: one plain line and one '#' line
TEXT_PLAIN ==
  <<"p","\n","#"," ","c">>

\* two urls
U1 ==
  <<"h","t","t","p","s",":","/","/","x",".","t","e","s","t","/","1">>

U2 ==
  <<"h","t","t","p","s",":","/","/","x",".","t","e","s","t","/","2">>

\* result lines 'A - https://x.test/1', 'A dup - https://x.test/1' and
\* 'C - https://x.test/2'
ExA ==
  <<"A"," ","-"," ","h","t","t","p","s",":","/","/","x",".","t","e","s","t","/","1">>

ExADup ==
  <<"A"," ","d","u","p"," ","-"," ","h","t","t","p","s",":","/","/","x",".","t","e","s","t","/",
    "1">>

ExC ==
  <<"C"," ","-"," ","h","t","t","p","s",":","/","/","x",".","t","e","s","t","/","2">>

\* the reference lines '1. [A](https://x.test/1)' and '2. B'
ExRefA ==
  <<"1","."," ","[","A","]","(","h","t","t","p","s",":","/","/","x",".","t","e","s","t","/","1",
    ")">>

ExRefB ==
  <<"2","."," ","B">>

(***************************************************************************)
(* The environment: what one call of the completion client and one request *)
(* to the search service can produce.                                      *)
(***************************************************************************)
\* client.chat.completions.create(...) raised
RAISE == <<"Raise">>

\* .choices[0].message.content of a completion that did not raise
CompletionContents == {None, <<>>, TEXT_MARKED, TEXT_PLAIN}

CompletionOutcomes == CompletionContents \cup {RAISE}

\* the outcomes of the n completions one stage invocation makes, when every
\* completion of the research call in progress ends the same way
CompletionSchedule(n, outcome) == [i \in 1..n |-> outcome]

\* the 'results' of a 200 response: four items, one of them without a title,
\* one with a url that is no http(s) url
SEARCH_ITEMS ==
  << [title |-> <<"A">>, url |-> U1],
     [title |-> <<>>, url |-> U2],
     [title |-> <<"B">>, url |-> <<"x">>],
     [title |-> <<"C">>, url |-> U2] >>

\* requests.get(...): it (or response.json()) raises, a status other than
\* 200, or 200 with a body
SearchResponses ==
  { [kind |-> "raise", items |-> <<>>],
    [kind |-> "error", items |-> <<>>],
    [kind |-> "ok", items |-> SEARCH_ITEMS] }

\* the responses to the n requests of one search: one kind of response to
\* the first request, one kind to the others
SearchSchedules(n) ==
  {[i \in 1..n |-> IF i = 1 THEN a ELSE b] : a \in SearchResponses, b \in SearchResponses}

(***************************************************************************)
(* The stage functions of tools.py.  client is TRUE when the module-level  *)
(* client is not None; resp, resps are the outcomes of the external calls  *)
(* the invocation makes, in order.                                         *)
(***************************************************************************)
\* the bug of returning the extracted list without testing it
topic_breakdownUnchecked(client, topic, resp) ==
  IF client /\ resp # RAISE /\ resp # None
  THEN StripKeep(FindBold(resp))
  ELSE TOPIC_BREAKDOWN_FALLBACK

topic_breakdown(client, topic, resp) ==
  LET extracted == IF client /\ resp # RAISE /\ resp # None
                   THEN StripKeep(FindBold(resp))
                   ELSE <<>>
  IN  IF Len(extracted) > 0 THEN extracted ELSE TOPIC_BREAKDOWN_FALLBACK

\* a line of the response that is neither blank nor starts with '#'
RECURSIVE PlainLines(_)
PlainLines(lines) ==
  IF Len(lines) = 0 THEN <<>>
  ELSE LET l == Strip(lines[1])
       IN  IF Len(l) > 0 /\ l[1] # "#"
           THEN <<l>> \o PlainLines(Tail(lines))
           ELSE PlainLines(Tail(lines))

\* the keywords one response contributes
Keywords(response_text) ==
  LET dashed == FindDash(response_text)
  IN  StripKeep(IF Len(dashed) > 0 THEN dashed ELSE PlainLines(SplitLines(response_text)))

RECURSIVE ExpandAll(_)
ExpandAll(resps) ==
  IF Len(resps) = 0 THEN <<>>
  ELSE Keywords(resps[1]) \o ExpandAll(Tail(resps))

\* the bug of returning every keyword extracted
query_expansionUncapped(client, subtopics, resps) ==
  LET failed == \E i \in 1..Len(subtopics) : resps[i] = RAISE \/ resps[i] = None
      expanded_queries == IF client /\ ~failed
                          THEN ExpandAll(SubSeq(resps, 1, Len(subtopics)))
                          ELSE <<>>
  IN  IF Len(expanded_queries) > 0
      THEN expanded_queries
      ELSE QUERY_EXPANSION_FALLBACK

query_expansion(client, subtopics, resps) ==
  LET failed == \E i \in 1..Len(subtopics) : resps[i] = RAISE \/ resps[i] = None
      expanded_queries == IF client /\ ~failed
                          THEN ExpandAll(SubSeq(resps, 1, Len(subtopics)))
                          ELSE <<>>
  IN  IF Len(expanded_queries) > 0
      THEN Take(expanded_queries, 10)
      ELSE QUERY_EXPANSION_FALLBACK

\* queries[:5], with the fixed query put in front when the phrase is missing
QueriesToUse(queries) ==
  LET first == Take(queries, 5)
  IN  IF ~Contains(RELEVANCE_PHRASE, Lower(Join(<<" ">>, first)))
      THEN <<RELEVANCE_QUERY>> \o first
      ELSE first

\* the lines one 200 response adds: its first 3 items that have both fields
RECURSIVE ItemLines(_)
ItemLines(items) ==
  IF Len(items) = 0 THEN <<>>
  ELSE LET it == items[1]
       IN  (IF Len(it.title) > 0 /\ Len(it.url) > 0
            THEN <<it.title \o <<" ", "-", " ">> \o it.url>>
            ELSE <<>>) \o ItemLines(Tail(items))

\* the loop over queries_to_use inside the try: it ends at the first raise
RECURSIVE SearchLoop(_, _, _)
SearchLoop(n, resps, i) ==
  IF i > n \/ resps[i].kind = "raise" THEN <<>>
  ELSE (IF resps[i].kind = "ok" THEN ItemLines(Take(resps[i].items, 3)) ELSE <<>>)
         \o SearchLoop(n, resps, i + 1)

\* the bug of returning every result gathered, or the whole canned set
searchUncapped(you_api_key, queries, max_results, resps) ==
  IF Len(queries) = 0 THEN <<>>
  ELSE LET queries_to_use == QueriesToUse(queries)
           results == IF you_api_key THEN SearchLoop(Len(queries_to_use), resps, 1) ELSE <<>>
       IN  IF Len(results) = 0 THEN SEARCH_FALLBACK ELSE results

search(you_api_key, queries, max_results, resps) ==
  IF Len(queries) = 0 THEN <<>>
  ELSE LET queries_to_use == QueriesToUse(queries)
           results == IF you_api_key THEN SearchLoop(Len(queries_to_use), resps, 1) ELSE <<>>
       IN  Take(IF Len(results) = 0 THEN SEARCH_FALLBACK ELSE results, max_results)

\* the bug of summarizing without testing the results for emptiness
summarize_contentUnguarded(client, search_results, resp) ==
  IF client /\ resp # RAISE THEN resp ELSE SUMMARY_FALLBACK

summarize_content(client, search_results, resp) ==
  IF Len(search_results) = 0 THEN NO_RESULTS_SENTINEL
  ELSE IF client /\ resp # RAISE THEN resp
  ELSE SUMMARY_FALLBACK

critique_summary(client, summary, resp) ==
  IF client /\ resp # RAISE THEN resp ELSE CRITIQUE_FALLBACK

improve_summary(client, summary, critique, resp) ==
  IF client /\ resp # RAISE THEN resp ELSE IMPROVE_FALLBACK

(***************************************************************************)
(* ResearchAgent.                                                          *)
(***************************************************************************)
\* search(queries, max_results=10)
DEFAULT_MAX_RESULTS == 10

\* self.cache['search_results'][:5]
REFERENCE_LIMIT == 5

VARIABLES
  client,        \* tools.client is not None
  you_api_key,   \* os.getenv('YOU_API_KEY') is set
  completion,    \* how the completions of the research call in progress end
  available,     \* some external call has succeeded since the process started
  cache,         \* self.cache
  pc,            \* "idle", "running", "done" (research returned), "raised"
  stepIdx,       \* position of the loop 'for step in self.steps', from 1
  topic,         \* the argument of the research call in progress
  result,        \* the local variable result of research
  references,    \* the local variable references of research
  calls,         \* the stage functions invoked in this research call, in order
  writes,        \* the cache fields assigned in this research call, in order
  rets,          \* the research calls that returned: topic and returned string
  nCalls,        \* research calls started so far
  refsIn,        \* a result list given directly to the reference formatter
  refsOut,       \* the reference lines built from refsIn
  refsDone,      \* the reference formatter has run on refsIn
  toolIn,        \* a stage function of tools.py with its arguments and environment
  toolOut,       \* what that invocation returned and the external calls it made
  toolDone       \* the invocation of toolIn has returned

vars ==
  <<client, you_api_key, completion, available, cache, pc, stepIdx, topic, result, references,
    calls, writes, rets, nCalls, refsIn, refsOut, refsDone, toolIn, toolOut, toolDone>>

Topics == {TestTopic, OtherTopic}

\* no stage function is being invoked on its own
NoTool == [fn |-> "none"]

\* ResearchAgent.__init__: the cache of a new agent
InitialCache ==
  [subtopics |-> <<>>, expanded_queries |-> <<>>, search_results |-> <<>>,
   summary |-> <<>>, critique |-> <<>>, improved_summary |-> <<>>]

\* the branch of the if/elif chain of research that a step string selects
Dispatch(step) ==
  IF Contains(PatBreakDown, step) THEN "topic_breakdown"
  ELSE IF Contains(PatGenerate, step) THEN "query_expansion"
  ELSE IF Contains(PatPerform, step) THEN "search"
  ELSE IF Contains(PatSummarize, Lower(step)) THEN "summarize_content"
  ELSE IF Contains(PatCritique, Lower(step)) THEN "critique_summary"
  ELSE IF Contains(PatImprove, Lower(step)) THEN "improve_summary"
  ELSE "none"

\* json.dumps of one character inside a string
JsonChar(c) ==
  IF c = "\"" THEN <<"\\", "\"">>
  ELSE IF c = "\\" THEN <<"\\", "\\">>
  ELSE IF c = "\n" THEN <<"\\", "n">>
  ELSE IF c = "\t" THEN <<"\\", "t">>
  ELSE IF c = "\r" THEN <<"\\", "r">>
  ELSE IF c = "\f" THEN <<"\\", "f">>
  ELSE <<c>>

RECURSIVE JsonChars(_)
JsonChars(s) == IF Len(s) = 0 THEN <<>> ELSE JsonChar(s[1]) \o JsonChars(Tail(s))

\* json.dumps(l) for a list of str
JsonDumps(l) ==
  <<"[">> \o Join(<<",", " ">>, [i \in 1..Len(l) |-> <<"\"">> \o JsonChars(l[i]) \o <<"\"">>])
    \o <<"]">>

\* str(v) as an f-string formats it
PyStr(v) == IF v = None THEN <<"N", "o", "n", "e">> ELSE v

\* the bug of building the reference block from the whole list
ReferenceSliceAll(search_results) == search_results

\* the entries of the cache the reference block is built from
ReferenceSlice(search_results) == Take(search_results, REFERENCE_LIMIT)

\* one reference line, n being i+1 of enumerate
ReferenceLine(n, r) ==
  LET match == ReMatchRef(r)
  IN  IF match.matched
      THEN IntToStr(n) \o <<".", " ", "[">> \o match.title \o <<"]", "(">> \o match.link \o <<")">>
      ELSE IntToStr(n) \o <<".", " ">> \o r

\* the list references of research
References(search_results) ==
  LET used == ReferenceSlice(search_results)
  IN  [i \in 1..Len(used) |-> ReferenceLine(i, used[i])]

\* the bug of returning the improved summary alone, as the docstring words it
FinalResultSummaryOnly(improved_summary, refs) == PyStr(improved_summary)

\* final_result of research
FinalResult(improved_summary, refs) ==
  PyStr(improved_summary) \o REFERENCES_HEADER \o Join(<<"\n">>, refs)

\* the outcomes the environment can give the external calls of one stage
EnvChoices(branch) ==
  IF branch = "search"
  THEN IF you_api_key /\ Len(cache.expanded_queries) > 0
       THEN SearchSchedules(Len(QueriesToUse(cache.expanded_queries)))
       ELSE {<<>>}
  ELSE IF branch = "query_expansion"
       THEN {CompletionSchedule(Len(cache.subtopics), completion)}
       ELSE {CompletionSchedule(1, completion)}

\* some request of one search got a 200 response
SearchAnswered(queries, resps) ==
  /\ you_api_key
  /\ Len(queries) > 0
  /\ \E i \in 1..Len(resps) :
       /\ resps[i].kind = "ok"
       /\ \A j \in 1..(i - 1) : resps[j].kind # "raise"

\* some completion of one stage invocation returned
CompletionAnswered(resps) == client /\ \E i \in 1..Len(resps) : resps[i] # RAISE

\* one branch of the chain: the stage call it makes (function, kind of
\* argument, argument, returned value, whether an external call succeeded),
\* the cache field it assigns, the cache and the value of result after it
StageEffect(branch, env) ==
  CASE branch = "topic_breakdown" ->
         LET subtopics == topic_breakdown(client, topic, env[1])
         IN  [call |-> <<[fn |-> branch, kind |-> "str", arg |-> topic, ret |-> subtopics,
                          ext |-> CompletionAnswered(env)]>>,
              field |-> <<"subtopics">>,
              cache |-> [cache EXCEPT !.subtopics = subtopics],
              result |-> JsonDumps(subtopics)]
    [] branch = "query_expansion" ->
         LET expanded_queries == query_expansion(client, cache.subtopics, env)
         IN  [call |-> <<[fn |-> branch, kind |-> "list", arg |-> cache.subtopics,
                          ret |-> expanded_queries, ext |-> CompletionAnswered(env)]>>,
              field |-> <<"expanded_queries">>,
              cache |-> [cache EXCEPT !.expanded_queries = expanded_queries],
              result |-> JsonDumps(expanded_queries)]
    [] branch = "search" ->
         LET search_results == search(you_api_key, cache.expanded_queries,
                                      DEFAULT_MAX_RESULTS, env)
         IN  [call |-> <<[fn |-> branch, kind |-> "list", arg |-> cache.expanded_queries,
                          ret |-> search_results,
                          ext |-> SearchAnswered(cache.expanded_queries, env)]>>,
              field |-> <<"search_results">>,
              cache |-> [cache EXCEPT !.search_results = @ \o search_results],
              result |-> Join(<<"\n">>, search_results)]
    [] branch = "summarize_content" ->
         LET summary == summarize_content(client, result, env[1])
         IN  [call |-> <<[fn |-> branch, kind |-> "str", arg |-> result, ret |-> summary,
                          ext |-> Len(result) > 0 /\ CompletionAnswered(env)]>>,
              field |-> <<"summary">>,
              cache |-> [cache EXCEPT !.summary = summary],
              result |-> summary]
    [] branch = "critique_summary" ->
         LET critique == critique_summary(client, cache.summary, env[1])
         IN  [call |-> <<[fn |-> branch, kind |-> "str", arg |-> cache.summary,
                          ret |-> critique, ext |-> CompletionAnswered(env)]>>,
              field |-> <<"critique">>,
              cache |-> [cache EXCEPT !.critique = critique],
              result |-> critique]
    [] branch = "improve_summary" ->
         LET improved_summary == improve_summary(client, cache.summary, cache.critique, env[1])
         IN  [call |-> <<[fn |-> branch, kind |-> "pair",
                          arg |-> <<cache.summary, cache.critique>>,
                          ret |-> improved_summary, ext |-> CompletionAnswered(env)]>>,
              field |-> <<"improved_summary">>,
              cache |-> [cache EXCEPT !.improved_summary = improved_summary],
              result |-> improved_summary]
    [] OTHER ->
         [call |-> <<>>, field |-> <<>>, cache |-> cache, result |-> result]

Init ==
  /\ client \in BOOLEAN
  /\ you_api_key \in BOOLEAN
  /\ completion = RAISE
  /\ available = FALSE
  /\ cache = InitialCache
  /\ pc = "idle"
  /\ stepIdx = 0
  /\ topic = <<>>
  /\ result = <<>>
  /\ references = <<>>
  /\ calls = <<>>
  /\ writes = <<>>
  /\ rets = <<>>
  /\ nCalls = 0
  /\ refsIn = <<>>
  /\ refsOut = <<>>
  /\ refsDone = FALSE
  /\ toolIn = NoTool
  /\ toolOut = NoTool
  /\ toolDone = FALSE

\* ResearchAgent(): a new agent replaces the one in use
Construct ==
  /\ pc \in {"done", "raised"}
  /\ cache' = InitialCache
  /\ pc' = "idle"
  /\ UNCHANGED <<client, you_api_key, completion, available, stepIdx, topic, result,
                 references, calls, writes, rets, nCalls, refsIn, refsOut, refsDone,
                 toolIn, toolOut, toolDone>>

\* research(t) is entered: result = topic, the loop is at its first step
Begin(t) ==
  /\ pc \in {"idle", "done", "raised"}
  /\ nCalls < MaxCalls
  /\ nCalls' = nCalls + 1
  /\ pc' = "running"
  /\ stepIdx' = 1
  /\ topic' = t
  /\ result' = t
  /\ references' = <<>>
  /\ calls' = <<>>
  /\ writes' = <<>>
  /\ completion' \in (IF client THEN CompletionOutcomes ELSE {RAISE})
  /\ UNCHANGED <<client, you_api_key, available, cache, rets, refsIn, refsOut, refsDone,
                 toolIn, toolOut, toolDone>>

\* one iteration of 'for step in self.steps': the branch the step string
\* selects, then print(result[:100]), which raises TypeError on None
StageStep ==
  /\ pc = "running"
  /\ stepIdx <= Len(steps)
  /\ LET branch == Dispatch(steps[stepIdx])
     IN  \E env \in EnvChoices(branch) :
           \E eff \in {StageEffect(branch, env)} :
               /\ cache' = eff.cache
               /\ result' = eff.result
               /\ calls' = calls \o eff.call
               /\ writes' = writes \o [i \in 1..Len(eff.field) |->
                                         [step |-> stepIdx, field |-> eff.field[i]]]
               /\ available' = (available \/ \E i \in 1..Len(eff.call) : eff.call[i].ext)
               /\ IF eff.result = None
                  THEN pc' = "raised" /\ stepIdx' = stepIdx
                  ELSE pc' = "running" /\ stepIdx' = stepIdx + 1
  /\ UNCHANGED <<client, you_api_key, completion, topic, references, rets, nCalls,
                 refsIn, refsOut, refsDone,
                 toolIn, toolOut, toolDone>>

\* after the loop: the reference block is built and research returns
Finish ==
  /\ pc = "running"
  /\ stepIdx = Len(steps) + 1
  /\ \E refs \in {References(cache.search_results)} :
       /\ references' = refs
       /\ rets' = Append(rets, [topic |-> topic,
                                value |-> FinalResult(cache.improved_summary, refs)])
  /\ pc' = "done"
  /\ UNCHANGED <<client, you_api_key, completion, available, cache, stepIdx, topic, result,
                 calls, writes, nCalls, refsIn, refsOut, refsDone,
                 toolIn, toolOut, toolDone>>

Next ==
  \/ Construct
  \/ \E t \in Topics : Begin(t)
  \/ StageStep
  \/ Finish

Spec == Init /\ [][Next]_vars

(***************************************************************************)
(* The reference formatting of research as a function of the result list:  *)
(* the list is drawn from the lines below, the formatter is applied once.  *)
(***************************************************************************)
ReferenceInputLines == {ExA, ExADup, <<"B">>, ExC}

RECURSIVE SeqsUpTo(_, _)
SeqsUpTo(S, n) ==
  IF n = 0 THEN {<<>>}
  ELSE LET shorter == SeqsUpTo(S, n - 1)
       IN  shorter \cup {Append(l, x) : l \in shorter, x \in S}

InitRefs ==
  /\ client = FALSE
  /\ you_api_key = FALSE
  /\ completion = RAISE
  /\ available = FALSE
  /\ cache = InitialCache
  /\ pc = "idle"
  /\ stepIdx = 0
  /\ topic = <<>>
  /\ result = <<>>
  /\ references = <<>>
  /\ calls = <<>>
  /\ writes = <<>>
  /\ rets = <<>>
  /\ nCalls = 0
  /\ refsIn \in SeqsUpTo(ReferenceInputLines, MaxRefInput)
  /\ refsOut = <<>>
  /\ refsDone = FALSE
  /\ toolIn = NoTool
  /\ toolOut = NoTool
  /\ toolDone = FALSE

\* research_agent.py lines 98-106 on refsIn
FormatReferences ==
  /\ ~refsDone
  /\ refsOut' = References(refsIn)
  /\ refsDone' = TRUE
  /\ UNCHANGED <<client, you_api_key, completion, available, cache, pc, stepIdx, topic, result,
                 references, calls, writes, rets, nCalls, refsIn, toolIn, toolOut, toolDone>>

NextRefs == FormatReferences

SpecRefs == InitRefs /\ [][NextRefs]_vars

(***************************************************************************)
(* The functions of tools.py and helpers.py called on their own: one       *)
(* invocation, its arguments and the answers of its external calls drawn   *)
(* from the sets below.                                                    *)
(***************************************************************************)
\* tools.py extract_title_and_link
extract_title_and_link(r) ==
  LET match == ReMatchRef(r)
  IN  IF match.matched THEN <<match.title, match.link>> ELSE <<r, <<"#">>>>

\* helpers.py extract_title_and_link
helpers_extract_title_and_link(r) ==
  LET match == ReMatchRef(r)
  IN  IF match.matched THEN <<match.title, match.link>> ELSE <<None, None>>

\* the requests.get calls of the loop over queries_to_use: the loop ends
\* with the request that raises
RECURSIVE RequestLoop(_, _, _)
RequestLoop(queries_to_use, resps, i) ==
  IF i > Len(queries_to_use) THEN <<>>
  ELSE IF resps[i].kind = "raise" THEN <<queries_to_use[i]>>
  ELSE <<queries_to_use[i]>> \o RequestLoop(queries_to_use, resps, i + 1)

\* the queries search sends a request for, in order
SearchRequests(api_key, queries, resps) ==
  IF Len(queries) = 0 \/ ~api_key THEN <<>>
  ELSE RequestLoop(QueriesToUse(queries), resps, 1)

\* the number of client.chat.completions.create calls query_expansion makes:
\* the loop ends with the completion that raises or whose content is None
ExpansionCompletions(cl, subtopics, resps) ==
  IF ~cl THEN 0
  ELSE LET ends == {i \in 1..Len(subtopics) : resps[i] = RAISE \/ resps[i] = None}
       IN  IF ends = {} THEN Len(subtopics) ELSE CHOOSE i \in ends : \A j \in ends : i <= j

\* the number of client.chat.completions.create calls summarize_content makes
SummarizeCompletions(cl, search_results) ==
  IF Len(search_results) = 0 THEN 0 ELSE IF cl THEN 1 ELSE 0

\* a completion whose bold item and dash item are blank
TEXT_BLANK == <<"*", "*", " ", "*", "*", "\n", "-", " ">>

ToolCompletionOutcomes == CompletionOutcomes \cup {TEXT_BLANK}

\* the outcomes of the n completions of one query_expansion: one outcome
\* before the k-th completion, one outcome from it on
ToolCompletionSchedules(n) ==
  {[i \in 1..n |-> IF i < k THEN a ELSE b] :
     a \in ToolCompletionOutcomes, b \in ToolCompletionOutcomes, k \in 1..n}
    \cup (IF n = 0 THEN {<<>>} ELSE {})

\* n subtopics
SubtopicList(n) == [i \in 1..n |-> <<"s">> \o IntToStr(i)]

\* n queries without the phrase 'machine learning engineer'
PlainQueries(n) == [i \in 1..n |-> <<"q">> \o IntToStr(i)]

\* the query lists search is given: with the phrase, without it, and with
\* the phrase after the fifth query only
QueryLists ==
  {Take(QUERY_EXPANSION_FALLBACK, n) : n \in 0..MaxQueries}
    \cup {PlainQueries(n) : n \in 1..MaxQueries}
    \cup {PlainQueries(5) \o <<RELEVANCE_PHRASE>>}

TitleChars == {"a", " ", "-", "\n"}

UrlChars == {"x", "-", "/"}

\* the titles that do not contain ' - '
Titles == {t \in SeqsUpTo(TitleChars, MaxTitleLen) : ~Contains(<<" ", "-", " ">>, t)}

\* the strings that r'https?://\S+' matches entirely
Urls ==
  {scheme \o tail : scheme \in {<<"h","t","t","p",":","/","/">>, <<"h","t","t","p","s",":","/","/">>},
                    tail \in SeqsUpTo(UrlChars, MaxUrlTail) \ {<<>>}}

\* the inputs summarize_content, critique_summary and improve_summary get
SummarizeInputs == {<<>>, Take(SEARCH_FALLBACK, 1), SEARCH_FALLBACK, Join(<<"\n">>, SEARCH_FALLBACK)}

SummaryTexts == {<<>>, NO_RESULTS_SENTINEL, SUMMARY_FALLBACK, TEXT_MARKED}

CritiqueTexts == {<<>>, CRITIQUE_FALLBACK, TEXT_PLAIN}

ToolCall(fn, cl, key, arg, arg2, max_results, resps) ==
  [fn |-> fn, client |-> cl, you_api_key |-> key, arg |-> arg, arg2 |-> arg2,
   max_results |-> max_results, resps |-> resps]

InitTools ==
  /\ client = FALSE
  /\ you_api_key = FALSE
  /\ completion = RAISE
  /\ available = FALSE
  /\ cache = InitialCache
  /\ pc = "idle"
  /\ stepIdx = 0
  /\ topic = <<>>
  /\ result = <<>>
  /\ references = <<>>
  /\ calls = <<>>
  /\ writes = <<>>
  /\ rets = <<>>
  /\ nCalls = 0
  /\ refsIn = <<>>
  /\ refsOut = <<>>
  /\ refsDone = FALSE
  /\ toolOut = NoTool
  /\ toolDone = FALSE
  /\ \/ \E cl \in BOOLEAN, t \in Topics, r \in ToolCompletionOutcomes :
          toolIn = ToolCall("topic_breakdown", cl, FALSE, t, <<>>, 0, <<r>>)
     \/ \E cl \in BOOLEAN, n \in 0..MaxSubtopics :
          \E rs \in ToolCompletionSchedules(n) :
            toolIn = ToolCall("query_expansion", cl, FALSE, SubtopicList(n), <<>>, 0, rs)
     \/ \E key \in BOOLEAN, qs \in QueryLists, m \in 0..MaxResults :
          \E rs \in SearchSchedules(Len(QueriesToUse(qs))) :
            toolIn = ToolCall("search", FALSE, key, qs, <<>>, m, rs)
     \/ \E cl \in BOOLEAN, sr \in SummarizeInputs, r \in ToolCompletionOutcomes :
          toolIn = ToolCall("summarize_content", cl, FALSE, sr, <<>>, 0, <<r>>)
     \/ \E cl \in BOOLEAN, s \in SummaryTexts, r \in ToolCompletionOutcomes :
          toolIn = ToolCall("critique_summary", cl, FALSE, s, <<>>, 0, <<r>>)
     \/ \E cl \in BOOLEAN, s \in SummaryTexts, c \in CritiqueTexts, r \in ToolCompletionOutcomes :
          toolIn = ToolCall("improve_summary", cl, FALSE, s, c, 0, <<r>>)
     \/ \E fn \in {"extract_title_and_link", "helpers_extract_title_and_link"},
           t \in Titles, u \in Urls :
          toolIn = ToolCall(fn, FALSE, FALSE, t, u, 0, <<>>)

\* the invocation toolIn describes returns ret after its external calls
Returns(fn, ret, requests, completions) ==
  /\ ~toolDone
  /\ toolIn.fn = fn
  /\ toolOut' = [ret |-> ret, requests |-> requests, completions |-> completions]
  /\ toolDone' = TRUE
  /\ UNCHANGED <<client, you_api_key, completion, available, cache, pc, stepIdx, topic, result,
                 references, calls, writes, rets, nCalls, refsIn, refsOut, refsDone, toolIn>>

CallTopicBreakdown ==
  Returns("topic_breakdown",
          topic_breakdown(toolIn.client, toolIn.arg, toolIn.resps[1]), <<>>,
          IF toolIn.client THEN 1 ELSE 0)

CallQueryExpansion ==
  Returns("query_expansion",
          query_expansion(toolIn.client, toolIn.arg, toolIn.resps), <<>>,
          ExpansionCompletions(toolIn.client, toolIn.arg, toolIn.resps))

CallSearch ==
  Returns("search",
          search(toolIn.you_api_key, toolIn.arg, toolIn.max_results, toolIn.resps),
          SearchRequests(toolIn.you_api_key, toolIn.arg, toolIn.resps), 0)

CallSummarizeContent ==
  Returns("summarize_content",
          summarize_content(toolIn.client, toolIn.arg, toolIn.resps[1]), <<>>,
          SummarizeCompletions(toolIn.client, toolIn.arg))

CallCritiqueSummary ==
  Returns("critique_summary",
          critique_summary(toolIn.client, toolIn.arg, toolIn.resps[1]), <<>>,
          IF toolIn.client THEN 1 ELSE 0)

CallImproveSummary ==
  Returns("improve_summary",
          improve_summary(toolIn.client, toolIn.arg, toolIn.arg2, toolIn.resps[1]), <<>>,
          IF toolIn.client THEN 1 ELSE 0)

\* f"{title} - {url}" is formatted, then extracted from
CallExtractTitleAndLink ==
  Returns("extract_title_and_link",
          extract_title_and_link(toolIn.arg \o <<" ", "-", " ">> \o toolIn.arg2), <<>>, 0)

CallHelpersExtractTitleAndLink ==
  Returns("helpers_extract_title_and_link",
          helpers_extract_title_and_link(toolIn.arg \o <<" ", "-", " ">> \o toolIn.arg2), <<>>, 0)

NextTools ==
  \/ CallTopicBreakdown
  \/ CallQueryExpansion
  \/ CallSearch
  \/ CallSummarizeContent
  \/ CallCritiqueSummary
  \/ CallImproveSummary
  \/ CallExtractTitleAndLink
  \/ CallHelpersExtractTitleAndLink

SpecTools == InitTools /\ [][NextTools]_vars

(***************************************************************************)
(* The claims.                                                             *)
(***************************************************************************)
STAGE_ORDER ==
  <<"topic_breakdown", "query_expansion", "search", "summarize_content", "critique_summary",
    "improve_summary">>

\* the names of the stage functions invoked so far in this research call
CallNames == [i \in 1..Len(calls) |-> calls[i].fn]

IsPrefixSeq(a, b) == Len(a) <= Len(b) /\ \A i \in 1..Len(a) : a[i] = b[i]

\* the value the invocation of fn in this research call returned is v
Produced(fn, v) == \E k \in 1..Len(calls) : calls[k].fn = fn /\ calls[k].ret = v

\* s ends with suffix
EndsWith(s, suffix) == IsPrefixAt(suffix, s, Len(s) - Len(suffix) + 1)

\* the url a reference line '<n>. [<title>](<url>)' cites, <<>> for a line
\* of another form
LineUrl(line) ==
  LET opens == {i \in 1..(Len(line) - 1) : IsPrefixAt(<<"]", "(">>, line, i)}
  IN  IF opens = {} \/ ~EndsWith(line, <<")">>) THEN <<>>
      ELSE SubSeq(line, (CHOOSE i \in opens : \A j \in opens : i >= j) + 2, Len(line) - 1)

\* the stage whose step owns a cache field
OwnerStep(field) ==
  CASE field = "subtopics" -> 1
    [] field = "expanded_queries" -> 2
    [] field = "search_results" -> 3
    [] field = "summary" -> 4
    [] field = "critique" -> 5
    [] field = "improved_summary" -> 6

\* C1: in every research call the six stage functions are invoked in the
\* order topic_breakdown, query_expansion, search, summarize_content,
\* critique_summary, improve_summary, each exactly once: at any moment the
\* invocations so far are a prefix of that order, and all six when it returns
C1_StagesInOrderOnce ==
  /\ IsPrefixSeq(CallNames, STAGE_ORDER)
  /\ pc = "done" => CallNames = STAGE_ORDER

\* C2: when research returns, cache['improved_summary'] is the value
\* improve_summary returned in this call for (cache['summary'],
\* cache['critique']), and the returned string is that value, then
\* "\n\nReferences:\n", then the reference lines
C2_ImprovedSummaryReturned ==
  pc = "done" =>
    /\ \E k \in 1..Len(calls) :
         /\ calls[k].fn = "improve_summary"
         /\ calls[k].arg = <<cache.summary, cache.critique>>
         /\ calls[k].ret = cache.improved_summary
    /\ rets[Len(rets)].value =
         cache.improved_summary \o REFERENCES_HEADER \o Join(<<"\n">>, references)

\* C3: research never raises to its caller, whatever the external calls do
C3_NeverRaises == pc # "raised"

\* C4: for a non-empty topic, the string research returns is not empty and
\* contains "References:"
C4_ReturnHasReferences ==
  \A i \in 1..Len(rets) :
    Len(rets[i].topic) > 0 =>
      /\ Len(rets[i].value) > 0
      /\ Contains(REFERENCES_LITERAL, rets[i].value)

\* a research call that got real completions and real search results returned
C4_Witness ==
  /\ pc = "done"
  /\ Len(rets) > 0
  /\ completion = TEXT_MARKED
  /\ \E k \in 1..Len(calls) : calls[k].fn = "search" /\ calls[k].ext

\* C5: the reference lines research builds never hold two lines with the
\* same url
C5_NoDuplicateUrl ==
  pc = "done" =>
    \A i, j \in 1..Len(references) :
      (i < j /\ LineUrl(references[i]) # <<>>) =>
        LineUrl(references[i]) # LineUrl(references[j])

\* C6: the reference lines are numbered 1..k without gaps, and the list
\* ['A - https://x.test/1', 'A dup - https://x.test/1', 'B'] yields exactly
\* '1. [A](https://x.test/1)' and '2. B'
C6_NumberedReferences ==
  refsDone =>
    /\ \A i \in 1..Len(refsOut) : IsPrefixAt(IntToStr(i) \o <<".", " ">>, refsOut[i], 1)
    /\ refsIn = <<ExA, ExADup, <<"B">>>> => refsOut = <<ExRefA, ExRefB>>

\* C7: within one research call each cache field is written at most once,
\* and only by the step of the stage that owns it
C7_FieldsWrittenOnceByOwner ==
  \A i \in 1..Len(writes) :
    /\ writes[i].step = OwnerStep(writes[i].field)
    /\ \A j \in 1..Len(writes) : j # i => writes[j].field # writes[i].field

\* C8: each stage function receives the value its producing stage returned
\* in this call: query_expansion the subtopics, search the expanded queries,
\* summarize_content the list of result strings, critique_summary the
\* summary, improve_summary the summary and the critique
C8_StageInputs ==
  \A i \in 1..Len(calls) :
    LET c == calls[i]
    IN  /\ c.fn = "query_expansion" =>
             c.kind = "list" /\ Produced("topic_breakdown", c.arg) /\ c.arg = cache.subtopics
        /\ c.fn = "search" =>
             c.kind = "list" /\ Produced("query_expansion", c.arg)
               /\ c.arg = cache.expanded_queries
        /\ c.fn = "summarize_content" =>
             c.kind = "list" /\ Produced("search", c.arg)
        /\ c.fn = "critique_summary" =>
             c.kind = "str" /\ Produced("summarize_content", c.arg)
        /\ c.fn = "improve_summary" =>
             c.kind = "pair" /\ Produced("summarize_content", c.arg[1])
               /\ Produced("critique_summary", c.arg[2])

\* C9: while no external call has ever succeeded (client and search service
\* unavailable), all research("Test Topic") calls that returned, on one agent
\* or on fresh ones, returned the same string
C9_FallbackDeterminism ==
  ~available =>
    \A i, j \in 1..Len(rets) :
      (rets[i].topic = TestTopic /\ rets[j].topic = TestTopic) =>
        rets[i].value = rets[j].value

\* two research("Test Topic") calls on the same agent returned, with nothing
\* external available
C9_Witness ==
  /\ ~available
  /\ pc = "done"
  /\ Len(rets) >= 2
  /\ rets[1].topic = TestTopic
  /\ rets[2].topic = TestTopic
  /\ Len(cache.search_results) > REFERENCE_LIMIT

\* C10: cache['search_results'] never holds more than the configured
\* maximum of entries
C10_SearchResultsCapped == Len(cache.search_results) <= DEFAULT_MAX_RESULTS

\* the stage function fn was invoked on its own and has returned
Returned(fn) == toolDone /\ toolIn.fn = fn

\* C11: query_expansion returns at most 10 items, for every subtopic list
\* and every behaviour of the completion client
C11_QueryExpansionCapped ==
  Returned("query_expansion") => Len(toolOut.ret) <= 10

\* more than 10 keywords were extracted from the answers, 10 are returned
C11_Witness ==
  /\ Returned("query_expansion")
  /\ toolIn.client
  /\ toolOut.completions = Len(toolIn.arg)
  /\ Len(ExpandAll(toolIn.resps)) > 10
  /\ Len(toolOut.ret) = 10

\* C12: search returns at most max_results entries, for every query list
\* and every behaviour of the search service, the canned set included
C12_SearchCapped ==
  Returned("search") => Len(toolOut.ret) <= toolIn.max_results

\* every request failed and max_results is below the size of the canned
\* set: the first max_results canned entries are returned
C12_Witness ==
  /\ Returned("search")
  /\ toolIn.you_api_key
  /\ Len(toolOut.requests) > 0
  /\ toolIn.max_results > 0
  /\ toolIn.max_results < Len(SEARCH_FALLBACK)
  /\ toolOut.ret = Take(SEARCH_FALLBACK, toolIn.max_results)

\* completion texts without a bold item that is not blank
NoBoldItem == {<<>>, TEXT_PLAIN, TEXT_BLANK}

\* completion texts without a dash item or line that is not blank
NoKeyword == {<<>>, TEXT_BLANK}

\* C13: topic_breakdown and query_expansion never return an empty list; with
\* no client, an exception, or answers without an extractable item they
\* return their canned list
C13_NeverEmpty ==
  /\ Returned("topic_breakdown") =>
        /\ Len(toolOut.ret) >= 1
        /\ (~toolIn.client \/ toolIn.resps[1] \in NoBoldItem \cup {RAISE, None})
             => toolOut.ret = TOPIC_BREAKDOWN_FALLBACK
  /\ Returned("query_expansion") =>
        /\ Len(toolOut.ret) >= 1
        /\ (\/ ~toolIn.client
            \/ \E i \in 1..Len(toolIn.resps) : toolIn.resps[i] \in {RAISE, None}
            \/ \A i \in 1..Len(toolIn.resps) : toolIn.resps[i] \in NoKeyword)
             => toolOut.ret = QUERY_EXPANSION_FALLBACK

\* the client answered with a text whose only bold item is blank, and the
\* canned subtopics are returned
C13_Witness ==
  /\ Returned("topic_breakdown")
  /\ toolIn.client
  /\ toolIn.resps[1] = TEXT_BLANK
  /\ toolOut.completions = 1
  /\ toolOut.ret = TOPIC_BREAKDOWN_FALLBACK

\* C14: summarize_content on non-empty input, critique_summary and
\* improve_summary return a non-empty string whatever the client answers
C14_NonEmptyText ==
  (\/ Returned("summarize_content") /\ Len(toolIn.arg) > 0
   \/ Returned("critique_summary")
   \/ Returned("improve_summary"))
    => toolOut.ret # None /\ Len(toolOut.ret) > 0

\* C15: summarize_content on empty search results returns exactly
\* "No search results to summarize." and makes no completion call, with or
\* without a client
C15_EmptyInputSentinel ==
  (Returned("summarize_content") /\ Len(toolIn.arg) = 0)
    => toolOut.ret = NO_RESULTS_SENTINEL /\ toolOut.completions = 0

\* a client that would have answered with text is configured, the results
\* are empty, the sentinel is returned
C15_Witness ==
  /\ Returned("summarize_content")
  /\ toolIn.client
  /\ toolIn.resps[1] = TEXT_MARKED
  /\ toolIn.arg = <<>>
  /\ toolOut.ret = NO_RESULTS_SENTINEL

\* one of the two extract_title_and_link functions has returned
ReturnedExtract ==
  Returned("extract_title_and_link") \/ Returned("helpers_extract_title_and_link")

\* C16 as stated: for every title without ' - ' and every url matching
\* https?://\S+, extract_title_and_link(title + ' - ' + url) = (title, url)
C16_RoundTrip ==
  ReturnedExtract => toolOut.ret = <<toolIn.arg, toolIn.arg2>>

\* C16 amended: the round trip holds for every title that contains neither
\* ' - ' nor a newline
C16_RoundTripOneLine ==
  (ReturnedExtract /\ \A k \in 1..Len(toolIn.arg) : toolIn.arg[k] # "\n")
    => toolOut.ret = <<toolIn.arg, toolIn.arg2>>

\* a title ending in ' -' and an http url: the formatted string holds
\* ' - - http', and the title and url come back
C16_Witness ==
  /\ Returned("extract_title_and_link")
  /\ toolIn.arg = <<"a", " ", "-">>
  /\ IsPrefixAt(<<"h","t","t","p",":">>, toolIn.arg2, 1)
  /\ toolOut.ret = <<toolIn.arg, toolIn.arg2>>

\* C17: the reference block a research call returns has at most 5 lines and
\* is built from the first 5 results the search of that same call returned,
\* also on an agent that has served earlier calls
C17_ReferencesOfThisCall ==
  pc = "done" =>
    /\ Len(references) <= REFERENCE_LIMIT
    /\ \E k \in 1..Len(calls) : calls[k].fn = "search"
    /\ \A k \in 1..Len(calls) :
         calls[k].fn = "search" => references = References(calls[k].ret)

\* an external call of the returned invocation failed: the dependency is
\* not configured, a completion it made raised, or a request it sent raised
\* or was answered with a status other than 200
ExternalFailure ==
  IF toolIn.fn = "search"
  THEN /\ Len(toolIn.arg) > 0
       /\ \/ ~toolIn.you_api_key
          \/ \E i \in 1..Len(toolOut.requests) : toolIn.resps[i].kind \in {"raise", "error"}
  ELSE /\ toolIn.fn = "summarize_content" => Len(toolIn.arg) > 0
       /\ \/ ~toolIn.client
          \/ \E i \in 1..toolOut.completions : toolIn.resps[i] = RAISE

\* the fixed value the returned stage function falls back to
StageFallback ==
  CASE toolIn.fn = "topic_breakdown" -> TOPIC_BREAKDOWN_FALLBACK
    [] toolIn.fn = "query_expansion" -> QUERY_EXPANSION_FALLBACK
    [] toolIn.fn = "search" -> Take(SEARCH_FALLBACK, toolIn.max_results)
    [] toolIn.fn = "summarize_content" -> SUMMARY_FALLBACK
    [] toolIn.fn = "critique_summary" -> CRITIQUE_FALLBACK
    [] toolIn.fn = "improve_summary" -> IMPROVE_FALLBACK

\* C18: a stage function whose external call failed returns its fixed
\* fallback value, not partial results and not a mix
C18_FallbackOnFailure ==
  \A fn \in {STAGE_ORDER[i] : i \in 1..Len(STAGE_ORDER)} :
    (Returned(fn) /\ ExternalFailure) => toolOut.ret = StageFallback

\* C19: search sends at most 5 requests, the i-th of them for the i-th of
\* the first 5 items of its input; no request is for a query that is not in
\* the input
C19_RequestsFromInput ==
  Returned("search") =>
    /\ Len(toolOut.requests) <= 5
    /\ IsPrefixSeq(toolOut.requests, Take(toolIn.arg, 5))
    /\ \A i \in 1..Len(toolOut.requests) :
         \E j \in 1..Len(toolIn.arg) : toolOut.requests[i] = toolIn.arg[j]

====
